---- MODULE Spec2Model ----
(***************************************************************************)
(* The image-upload controller of src/src/App.tsx (the "Image to URL"      *)
(* screen of the App component): the React state of the component, the     *)
(* asynchronous handleFiles activations with their two suspension points   *)
(* (await fetch, await res.json), the clipboard writes in flight, the      *)
(* pending setTimeout callbacks and the passing of time.  A pending        *)
(* callback carries the milliseconds left until it runs; time passes in    *)
(* steps of one second and a callback runs at the instant it falls due.    *)
(* The display-only timestamp of an entry (uploadTime) is not modelled.    *)
(*                                                                         *)
(* Spec is the whole component.  The upload workflow, the status timers    *)
(* and the copy marks interact only through statusMessage, copiedId and    *)
(* timers, so each property is checked under the specification that holds  *)
(* the operations it is about: UploadSpec (selection, upload, removal),    *)
(* BusySpec (selection and upload, every request settling), TimerSpec      *)
(* (upload and status timers under passing time) and CopySpec (upload,     *)
(* copy and copy marks under passing time).                                *)
(***************************************************************************)
EXTENDS Integers, Sequences, FiniteSets, TLC

\* ---------------------------------------------------------------- bounds
MaxRequests == 2    \* upload requests issued in one behaviour
MaxBatch == 3       \* files in one drop or one file-picker selection
MaxCopies == 2      \* copies under way at once (write in flight or mark pending)

\* ------------------------------------------------------ program constants
EmptyInputDelay == 3000
SummaryDelay == 4000
CopiedDelay == 2000

EmptyInputMessage == "Please select valid image files"
UploadingMessage == "Uploading your images..."
FailedMessage == "Upload failed. Please try again."
NoMessage == ""

VARIABLES
    isDragging,      \* useState(false)
    uploadedImages,  \* useState<UploadedImage[]>([]), newest first
    isUploading,     \* useState(false), the busy flag
    statusMessage,   \* useState('')
    copiedId,        \* useState<string | null>(null)
    runs,            \* the handleFiles activations suspended at an await
    nruns,           \* number of activations that entered the upload loop
    network,         \* every request issued with fetch, in issue order
    writes,          \* clipboard writes awaited by copyToClipboard
    timers,          \* pending setTimeout callbacks
    msgAge           \* history: ms since the displayed status message was set

vars == <<isDragging, uploadedImages, isUploading, statusMessage, copiedId,
          runs, nruns, network, writes, timers, msgAge>>

\* ------------------------------------------------------------- strings
\* Strings the code inspects character by character are sequences of
\* one-character strings.
ImagePrefix == <<"i","m","a","g","e","/">>
TypePng == <<"i","m","a","g","e","/","p","n","g">>
TypeGif == <<"i","m","a","g","e","/","g","i","f">>
TypeText == <<"t","e","x","t","/","p","l","a","i","n">>

\* String.prototype.startsWith
startsWith(s, p) == Len(s) >= Len(p) /\ SubSeq(s, 1, Len(p)) = p

\* String.prototype.substr(start, length), start counted from 0
substr(s, start, length) ==
    IF start >= Len(s) THEN <<>>
    ELSE SubSeq(s, start + 1, IF start + length < Len(s) THEN start + length ELSE Len(s))

\* --------------------------------------------------------------- inputs
\* The File objects a user can drop or select: name and declared media type.
Files == { [name |-> "a.png", type |-> TypePng],
           [name |-> "b.gif", type |-> TypeGif],
           [name |-> "c.txt", type |-> TypeText] }

RECURSIVE FileListsOfLen(_)
FileListsOfLen(n) ==
    IF n = 0 THEN { <<>> }
    ELSE { Append(s, f) : s \in FileListsOfLen(n - 1), f \in Files }

IsInjective(s) == \A i, j \in 1..Len(s) : i # j => s[i] # s[j]

\* A drop payload or a picker selection: up to MaxBatch distinct files.
FileLists ==
    { s \in UNION { FileListsOfLen(n) : n \in 0..MaxBatch } : IsInjective(s) }

\* Math.random().toString(36): the digits of a random number in base 36.
RandomDigits == { <<"0",".","i">>,
                  <<"0",".","4","f","z","y","o","8","2","m","v","q">>,
                  <<"0",".","4","f","z","y","o","8","2","m","v","r">> }

\* ------------------------------------------------------ the remote endpoint
Undefined == "<undefined>"
Urls == { "https://host/1.png" }

\* A JSON value is null or an object, an object a set of <<key, value>>.
JsonNull == [isNull |-> TRUE, fields |-> {}]
JsonObject(fs) == [isNull |-> FALSE, fields |-> fs]

\* What res.json() makes of a response body.
Bodies == { "<html>Bad Gateway</html>", "null", "{\"error\":\"too large\"}" }
              \cup { "{\"imageUrl\":\"" \o u \o "\"}" : u \in Urls }

JsonParse(body) ==
    IF body = "<html>Bad Gateway</html>" THEN [ok |-> FALSE, value |-> JsonNull]
    ELSE IF body = "null" THEN [ok |-> TRUE, value |-> JsonNull]
    ELSE IF body = "{\"error\":\"too large\"}"
         THEN [ok |-> TRUE, value |-> JsonObject({ <<"error", "too large">> })]
    ELSE LET u == CHOOSE x \in Urls : body = "{\"imageUrl\":\"" \o x \o "\"}"
         IN [ok |-> TRUE, value |-> JsonObject({ <<"imageUrl", u>> })]

\* data.imageUrl: a TypeError on null, undefined on a missing field.
HasField(obj, key) == \E p \in obj.fields : p[1] = key
GetField(obj, key) ==
    IF HasField(obj, key) THEN (CHOOSE p \in obj.fields : p[1] = key)[2]
    ELSE Undefined

\* fetch either rejects or resolves with a response carrying a body.
Responses == { [rejected |-> TRUE, body |-> ""] }
                \cup { [rejected |-> FALSE, body |-> b] : b \in Bodies }


\* ------------------------------------------------------ state and helpers
\* copiedId is a string or null.
Null == [isNull |-> TRUE, id |-> <<>>]
Id(x) == [isNull |-> FALSE, id |-> x]

\* copiedId === image.id, the test that renders an entry as "Copied!"
IsCopied(image) == ~copiedId.isNull /\ copiedId.id = image.id

\* The drop zone carries pointer-events-none while isUploading.
DropZoneAlwaysEnabled == TRUE
DropZoneEnabled == ~isUploading

\* file.type.startsWith('image/')
AcceptsAnyType(file) == startsWith(file.type, <<>>)
IsImageFile(file) == startsWith(file.type, ImagePrefix)

\* files.filter(file => file.type.startsWith('image/'))
FilterImages(files) == SelectSeq(files, IsImageFile)

\* Math.random().toString(36).substr(2, 9)
NewId(digits) == substr(digits, 2, 9)

\* `Successfully uploaded ${n} image${n > 1 ? 's' : ''}`
SummaryMessagePluralAlways(n) ==
    "Successfully uploaded " \o ToString(n) \o " image" \o (IF n >= 1 THEN "s" ELSE "")
SummaryMessage(n) ==
    "Successfully uploaded " \o ToString(n) \o " image" \o (IF n > 1 THEN "s" ELSE "")

\* prev => [newImage, ...prev]
PrependAtEnd(prev, newImage) == Append(prev, newImage)
Prepend(prev, newImage) == <<newImage>> \o prev

\* prev => prev.filter(img => img.id !== id)
KeepsOnlyId(prev, id) == SelectSeq(prev, LAMBDA img : img.id = id)
FilterOutId(prev, id) == SelectSeq(prev, LAMBDA img : img.id # id)

\* setTimeout(callback, delay): kind names the callback, "status" for
\* () => setStatusMessage('') and "copied" for () => setCopiedId(null);
\* from is history, the id whose copy armed a "copied" timer.
Timer(delay, kind, from) == [left |-> delay, kind |-> kind, from |-> from]

\* setTimeout(() => setStatusMessage(''), 3000)
EmptyInputTimerLate == Timer(SummaryDelay, "status", <<>>)
EmptyInputTimer == Timer(EmptyInputDelay, "status", <<>>)
\* setTimeout(() => setStatusMessage(''), 4000)
SummaryTimer == Timer(SummaryDelay, "status", <<>>)
\* setTimeout(() => setCopiedId(null), 2000)
CopiedTimer(id) == Timer(CopiedDelay, "copied", id)

\* fetch(url, {method: 'POST', body: formData}) with formData.image = file
Request(run, file) == [run |-> run, file |-> file, status |-> "inflight", body |-> ""]

\* The requests an activation has issued when it first suspends: the first
\* iteration of the for loop runs up to its await fetch.
IssuedOnEntryAll(run, imageFiles) ==
    [k \in 1..Len(imageFiles) |-> Request(run, imageFiles[k])]
IssuedOnEntry(run, imageFiles) == << Request(run, imageFiles[1]) >>

Outstanding(q) == q.status \in {"inflight", "reading"}

\* The index in network of the request activation r is suspended on.
Awaited(r) ==
    CHOOSE k \in 1..Len(network) :
        /\ network[k].run = r.id
        /\ Outstanding(network[k])
        /\ \A j \in 1..Len(network) :
               (network[j].run = r.id /\ Outstanding(network[j])) => j <= k

Settle(net, k, status, body) ==
    [net EXCEPT ![k] = [@ EXCEPT !.status = status, !.body = body]]

Init ==
    /\ isDragging = FALSE
    /\ uploadedImages = <<>>
    /\ isUploading = FALSE
    /\ statusMessage = NoMessage
    /\ copiedId = Null
    /\ runs = {}
    /\ nruns = 0
    /\ network = <<>>
    /\ writes = {}
    /\ timers = {}
    /\ msgAge = 0

\* ------------------------------------------------------------- handleFiles
\* Lines 55-75: from the call to the first await.  An activation holds its
\* files and imageFiles, the index i of the file in progress and where it is
\* suspended (pc); listAtStart and disturbed are history: the display list
\* it started from and whether removeImage ran since.
handleFiles(files) ==
    LET imageFiles == FilterImages(files) IN
    IF Len(imageFiles) = 0
    THEN /\ statusMessage' = EmptyInputMessage
         /\ msgAge' = 0
         /\ timers' = timers \cup { EmptyInputTimer }
         /\ UNCHANGED <<uploadedImages, isUploading, copiedId, runs, nruns, network,
                        writes>>
    ELSE /\ Len(network) + Len(imageFiles) <= MaxRequests
         /\ isUploading' = TRUE
         /\ statusMessage' = UploadingMessage
         /\ msgAge' = 0
         /\ nruns' = nruns + 1
         /\ runs' = runs \cup { [id |-> nruns + 1, files |-> files,
                                 imageFiles |-> imageFiles, i |-> 1,
                                 pc |-> "fetch", body |-> "",
                                 listAtStart |-> uploadedImages,
                                 disturbed |-> FALSE] }
         /\ network' = network \o IssuedOnEntry(nruns + 1, imageFiles)
         /\ UNCHANGED <<uploadedImages, copiedId, writes, timers>>

\* Lines 67-95 after the try/catch of file r.i: the next iteration up to its
\* await fetch, or the completion of the batch.  net, msg and age are the
\* request log and the status message as the try/catch left them.
NextIteration(r, net, msg, age) ==
    IF r.i < Len(r.imageFiles)
    THEN /\ runs' = (runs \ {r}) \cup { [r EXCEPT !.i = r.i + 1, !.pc = "fetch", !.body = ""] }
         /\ network' = Append(net, Request(r.id, r.imageFiles[r.i + 1]))
         /\ statusMessage' = msg
         /\ msgAge' = age
         /\ UNCHANGED <<isUploading, timers>>
    ELSE /\ runs' = runs \ {r}
         /\ network' = net
         /\ isUploading' = FALSE
         /\ statusMessage' = SummaryMessage(Len(r.imageFiles))
         /\ msgAge' = 0
         /\ timers' = timers \cup { SummaryTimer }

\* await fetch(...) settles: it rejects (catch, lines 87-90) or resolves with
\* a response, and the activation suspends again at await res.json().
FetchSettles(r, resp) ==
    /\ r \in runs
    /\ r.pc = "fetch"
    /\ IF resp.rejected
       THEN NextIteration(r, Settle(network, Awaited(r), "failed", ""), FailedMessage, 0)
       ELSE /\ runs' = (runs \ {r}) \cup { [r EXCEPT !.pc = "json", !.body = resp.body] }
            /\ network' = Settle(network, Awaited(r), "reading", resp.body)
            /\ UNCHANGED <<isUploading, statusMessage, timers, msgAge>>
    /\ UNCHANGED <<isDragging, uploadedImages, copiedId, nruns, writes>>

\* await res.json() settles (lines 77-90): a body that is no JSON rejects, a
\* null body throws at data.imageUrl, anything else becomes a new entry.
\* The entry records the request it came from (call, history).
JsonSettles(r, digits) ==
    /\ r \in runs
    /\ r.pc = "json"
    /\ LET parsed == JsonParse(r.body)
           data == parsed.value
           k == Awaited(r)
       IN IF ~parsed.ok \/ data.isNull
          THEN /\ NextIteration(r, Settle(network, k, "failed", r.body), FailedMessage, 0)
               /\ UNCHANGED uploadedImages
          ELSE LET newImage == [id |-> NewId(digits),
                                name |-> r.imageFiles[r.i].name,
                                url |-> GetField(data, "imageUrl"),
                                call |-> k]
               IN /\ uploadedImages' = Prepend(uploadedImages, newImage)
                  /\ NextIteration(r, Settle(network, k, "ok", r.body),
                                   statusMessage, msgAge)
    /\ UNCHANGED <<isDragging, copiedId, nruns, writes>>

\* ---------------------------------------------------------- drag and drop
handleDragOver ==
    /\ DropZoneEnabled
    /\ isDragging' = TRUE
    /\ UNCHANGED <<uploadedImages, isUploading, statusMessage, copiedId, runs, nruns,
                   network, writes, timers, msgAge>>

handleDragLeave ==
    /\ DropZoneEnabled
    /\ isDragging' = FALSE
    /\ UNCHANGED <<uploadedImages, isUploading, statusMessage, copiedId, runs, nruns,
                   network, writes, timers, msgAge>>

handleDrop(files) ==
    /\ DropZoneEnabled
    /\ isDragging' = FALSE
    /\ handleFiles(files)

handleFileSelect(files) ==
    /\ DropZoneEnabled
    /\ UNCHANGED isDragging
    /\ handleFiles(files)

\* ---------------------------------------------------------- copy, remove
\* Lines 98-100: the Copy button of a displayed entry, up to the await.
copyToClipboard(url, id) ==
    /\ Cardinality(writes) + Cardinality({ t \in timers : t.kind = "copied" }) < MaxCopies
    /\ writes' = writes \cup { [url |-> url, id |-> id] }
    /\ UNCHANGED <<isDragging, uploadedImages, isUploading, statusMessage, copiedId,
                   runs, nruns, network, timers, msgAge>>

\* await navigator.clipboard.writeText(url) settles (lines 100-105).
ClipboardSettles(w, ok) ==
    /\ w \in writes
    /\ writes' = writes \ {w}
    /\ IF ok
       THEN /\ copiedId' = Id(w.id)
            /\ timers' = timers \cup { CopiedTimer(w.id) }
       ELSE UNCHANGED <<copiedId, timers>>
    /\ UNCHANGED <<isDragging, uploadedImages, isUploading, statusMessage, runs, nruns,
                   network, msgAge>>

\* Lines 108-110: the Remove button of a displayed entry.
removeImage(id) ==
    /\ uploadedImages' = FilterOutId(uploadedImages, id)
    /\ runs' = { [r EXCEPT !.disturbed = TRUE] : r \in runs }
    /\ UNCHANGED <<isDragging, isUploading, statusMessage, copiedId, nruns,
                   network, writes, timers, msgAge>>

\* ------------------------------------------------------------ timers, time
\* A setTimeout callback runs: () => setStatusMessage('') or
\* () => setCopiedId(null).
FireTimer(t) ==
    /\ t \in timers
    /\ t.left = 0
    /\ timers' = timers \ {t}
    /\ IF t.kind = "status"
       THEN /\ statusMessage' = NoMessage
            /\ msgAge' = 0
            /\ UNCHANGED copiedId
       ELSE /\ copiedId' = Null
            /\ UNCHANGED <<statusMessage, msgAge>>
    /\ UNCHANGED <<isDragging, uploadedImages, isUploading, runs, nruns, network,
                   writes>>

Older(age, shown, cap) == IF shown /\ age < cap THEN age + 1000 ELSE age

\* One second passes; callbacks that are due run first.
Tick ==
    /\ \A t \in timers : t.left > 0
    /\ timers' = { [t EXCEPT !.left = @ - 1000] : t \in timers }
    /\ msgAge' = Older(msgAge, statusMessage # NoMessage, SummaryDelay)
    /\ UNCHANGED <<isDragging, uploadedImages, isUploading, statusMessage, copiedId,
                   runs, nruns, network, writes>>

\* ---------------------------------------------------------- specifications
Drag == handleDragOver \/ handleDragLeave
Drop == \E files \in FileLists : handleDrop(files)
Select == \E files \in FileLists : handleFileSelect(files)
Fetched == \E r \in runs, resp \in Responses : FetchSettles(r, resp)
Parsed == \E r \in runs, digits \in RandomDigits : JsonSettles(r, digits)
Copy ==
    \E i \in 1..Len(uploadedImages) :
        copyToClipboard(uploadedImages[i].url, uploadedImages[i].id)
Written == \E w \in writes, ok \in BOOLEAN : ClipboardSettles(w, ok)
Remove == \E i \in 1..Len(uploadedImages) : removeImage(uploadedImages[i].id)
Fire == \E t \in timers : FireTimer(t)

Next ==
    \/ Drag
    \/ Drop
    \/ Select
    \/ Fetched
    \/ Parsed
    \/ Copy
    \/ Written
    \/ Remove
    \/ Fire
    \/ Tick

Spec == Init /\ [][Next]_vars

\* Selection, upload and removal.
NextUpload == Drag \/ Drop \/ Select \/ Fetched \/ Parsed \/ Remove
UploadSpec == Init /\ [][NextUpload]_vars

\* The busy flag: selection and upload, every request settling (the two
\* awaits of an activation are weakly fair).  removeImage reads and writes
\* the display list alone.
NextBusy == Drag \/ Drop \/ Select \/ Fetched \/ Parsed
BusySpec == Init /\ [][NextBusy]_vars /\ WF_vars(Fetched) /\ WF_vars(Parsed)

\* The status message under passing time.  Display ids play no part in it:
\* every entry gets the same random digits.
ParsedSameId == \E r \in runs : JsonSettles(r, <<"0", ".", "i">>)
NextTimer == Select \/ Fetched \/ ParsedSameId \/ Fire \/ Tick
TimerSpec == Init /\ [][NextTimer]_vars

\* The copy marks under passing time, the endpoint answering every upload
\* with a URL.
FetchedUrl ==
    \E r \in runs, u \in Urls :
        FetchSettles(r, [rejected |-> FALSE, body |-> "{\"imageUrl\":\"" \o u \o "\"}"])
NextCopy == Select \/ FetchedUrl \/ Parsed \/ Copy \/ Written \/ Fire \/ Tick
CopySpec == Init /\ [][NextCopy]_vars

\* ------------------------------------------------------------- properties
\* The requests of activation id in a request log, in issue order.
ReqsOf(net, id) == SelectSeq(net, LAMBDA q : q.run = id)

\* Activation r takes its last step: its batch completes.
Completes(r) == r \in runs /\ \A r2 \in runs' : r2.id # r.id

\* The number of requests of activation id that a log shows with a status.
CountStatus(net, id, status) ==
    Cardinality({ k \in 1..Len(net) : net[k].run = id /\ net[k].status = status })

Names(list) == [k \in 1..Len(list) |-> list[k].name]
Reverse(seq) == [k \in 1..Len(seq) |-> seq[Len(seq) + 1 - k]]

\* C1: within one batch uploads are strictly sequential.  While an
\* activation runs, the requests it has issued are exactly those for its
\* first i accepted files, in selection order, one each; every one but the
\* last is settled (ok or failed) and the last is the only one outstanding.
\* No batch ever has two requests outstanding.  When the batch completes it
\* has issued exactly one request per accepted file, in selection order,
\* and all of them are settled.
C1_WhileRunning ==
    \A r \in runs :
        LET qs == ReqsOf(network, r.id) IN
        /\ Len(qs) = r.i
        /\ \A k \in 1..Len(qs) : qs[k].file = r.imageFiles[k]
        /\ \A k \in 1..(Len(qs) - 1) : qs[k].status \in {"ok", "failed"}
        /\ Outstanding(qs[Len(qs)])
C1_OneOutstanding ==
    \A id \in 1..nruns :
        Cardinality({ k \in 1..Len(network) :
                        network[k].run = id /\ Outstanding(network[k]) }) <= 1
C1_AtCompletion ==
    \A r \in runs :
        Completes(r) =>
            LET qs == ReqsOf(network', r.id) IN
            /\ Len(qs) = Len(r.imageFiles)
            /\ \A k \in 1..Len(qs) :
                   qs[k].file = r.imageFiles[k] /\ qs[k].status \in {"ok", "failed"}
C1_Sequential ==
    /\ [](C1_WhileRunning /\ C1_OneOutstanding)
    /\ [][C1_AtCompletion]_vars

\* C1 witness: a batch of two accepted files whose first request has
\* settled and whose second request is in flight.
C1_Witness ==
    \E r \in runs :
        /\ Len(r.imageFiles) = 2
        /\ r.i = 2
        /\ r.pc = "fetch"
        /\ ReqsOf(network, r.id)[1].status = "failed"

\* C2: when a batch of N accepted files completes with every upload
\* successful (and no removal since it started), the display list is the
\* batch's N files in reverse processing order followed by the list as it
\* was when the batch started.
C2_AtCompletion ==
    \A r \in runs :
        (/\ Completes(r)
         /\ ~r.disturbed
         /\ CountStatus(network', r.id, "ok") = Len(r.imageFiles))
        => LET n == Len(r.imageFiles) IN
           /\ Len(uploadedImages') = Len(r.listAtStart) + n
           /\ SubSeq(Names(uploadedImages'), 1, n) = Reverse(Names(r.imageFiles))
           /\ SubSeq(uploadedImages', n + 1, Len(uploadedImages')) = r.listAtStart
C2_NewestFirst == [][C2_AtCompletion]_vars

\* C2 witness: a batch of two files has completed with both uploads
\* successful and the display list holds the second file above the first.
C2_Witness ==
    /\ runs = {}
    /\ Len(network) = 2
    /\ network[1].run = network[2].run
    /\ network[1].status = "ok" /\ network[2].status = "ok"
    /\ Len(uploadedImages) = 2
    /\ uploadedImages[1].name = network[2].file.name
    /\ uploadedImages[2].name = network[1].file.name

\* C3: when a batch of N accepted files completes with exactly one upload
\* failed (and no removal since it started), every file was requested, the
\* display list has gained N - 1 entries and the status message reports N,
\* "Successfully uploaded N image" with a final "s" exactly when N > 1.
ExpectedSummary(n) ==
    IF n = 1 THEN "Successfully uploaded 1 image"
    ELSE "Successfully uploaded " \o ToString(n) \o " images"
C3_AtCompletion ==
    \A r \in runs :
        (/\ Completes(r)
         /\ ~r.disturbed
         /\ CountStatus(network', r.id, "failed") = 1)
        => LET n == Len(r.imageFiles) IN
           /\ Len(ReqsOf(network', r.id)) = n
           /\ CountStatus(network', r.id, "ok") = n - 1
           /\ Len(uploadedImages') = Len(r.listAtStart) + n - 1
           /\ statusMessage' = ExpectedSummary(n)
           /\ ~isUploading'
C3_FailureDoesNotAbort == [][C3_AtCompletion]_vars

\* C3 witness: a batch of two files has completed, its first upload failed,
\* its second succeeded, and the message reports two images.
C3_Witness ==
    /\ runs = {}
    /\ Len(network) = 2
    /\ network[1].run = network[2].run
    /\ network[1].status = "failed" /\ network[2].status = "ok"
    /\ Len(uploadedImages) = 1
    /\ statusMessage = "Successfully uploaded 2 images"

\* C4: no request is ever issued for a file whose media type does not begin
\* with "image/", and no entry of the display list comes from such a file.
BeginsWithImageSlash(type) ==
    /\ Len(type) >= 6
    /\ type[1] = "i" /\ type[2] = "m" /\ type[3] = "a"
    /\ type[4] = "g" /\ type[5] = "e" /\ type[6] = "/"
NonImageNames == { f.name : f \in { g \in Files : ~BeginsWithImageSlash(g.type) } }
C4_OnlyImages ==
    /\ \A k \in 1..Len(network) : BeginsWithImageSlash(network[k].file.type)
    /\ \A k \in 1..Len(uploadedImages) : uploadedImages[k].name \notin NonImageNames
    /\ \A r \in runs :
           \A f \in Files :
               (\E k \in 1..Len(r.imageFiles) : r.imageFiles[k] = f)
                   <=> (BeginsWithImageSlash(f.type) /\ \E k \in 1..Len(r.files) : r.files[k] = f)

\* C4 witness: a selection holding a non-image file between two images has
\* been uploaded to its last file.
C4_Witness ==
    \E r \in runs :
        /\ Len(r.files) = 3
        /\ ~BeginsWithImageSlash(r.files[2].type)
        /\ r.i = 2
        /\ Len(uploadedImages) = 1

\* C5: the busy flag is set exactly while a batch is in progress.  In every
\* state an outstanding request implies the flag, and the flag implies a
\* batch in progress; the flag becomes set only in a step that starts a
\* batch with at least one accepted file; and, every request settling, a
\* set flag is eventually cleared.
C5_BusyWhileRunning ==
    /\ (\E k \in 1..Len(network) : Outstanding(network[k])) => isUploading
    /\ runs # {} => isUploading
    /\ isUploading => runs # {}
C5_SetOnlyByBatch ==
    (~isUploading /\ isUploading')
        => \E r \in runs' : r \notin runs /\ r.i = 1 /\ Len(r.imageFiles) >= 1
C5_BusyFlag ==
    /\ []C5_BusyWhileRunning
    /\ [][C5_SetOnlyByBatch]_vars
    /\ (isUploading ~> ~isUploading)

\* C5 witness: the flag is set while the second file of a batch is being
\* uploaded after the first one failed.
C5_Witness ==
    /\ isUploading
    /\ \E r \in runs : r.i = 2 /\ r.pc = "json" /\ statusMessage = FailedMessage

\* C7: removeImage(id) removes exactly the entries that carry the display
\* id (one entry, unless two random ids coincide) and keeps the others in
\* their order; it issues no request and leaves the busy flag and the
\* status message alone, also while a batch runs.  Only removeImage shrinks
\* the list: any other step keeps every entry, in order, below whatever it
\* prepends.
RECURSIVE Without(_, _)
Without(list, id) ==
    IF list = <<>> THEN <<>>
    ELSE IF Head(list).id = id THEN Without(Tail(list), id)
    ELSE <<Head(list)>> \o Without(Tail(list), id)
IsSuffix(old, new) ==
    /\ Len(old) <= Len(new)
    /\ SubSeq(new, Len(new) - Len(old) + 1, Len(new)) = old
C7_Step ==
    /\ \A k \in 1..Len(uploadedImages) :
           LET id == uploadedImages[k].id IN
           removeImage(id)
               => /\ uploadedImages' = Without(uploadedImages, id)
                  /\ network' = network
                  /\ isUploading' = isUploading
                  /\ statusMessage' = statusMessage
    /\ Len(uploadedImages') < Len(uploadedImages)
           => \E k \in 1..Len(uploadedImages) : removeImage(uploadedImages[k].id)
    /\ Len(uploadedImages') >= Len(uploadedImages)
           => IsSuffix(uploadedImages, uploadedImages')
C9_EntriesFromUrlResponses ==
    \A k \in 1..Len(uploadedImages) :
        LET e == uploadedImages[k]
            parsed == JsonParse(network[e.call].body)
        IN /\ parsed.ok
           /\ ~parsed.value.isNull
           /\ HasField(parsed.value, "imageUrl")
           /\ e.url = GetField(parsed.value, "imageUrl")
           /\ e.url \in Urls

\* C6: a selection without any image file sets the status message to
\* "Please select valid image files" and arms a timer of 3 seconds for it,
\* issues no request, starts no batch and leaves the busy flag and the
\* display list alone; while the message is displayed the callback armed
\* with it is pending and falls due exactly 3 seconds after the message was
\* set, so the message is never displayed longer than 3 seconds.
SetsEmptyInputMessage ==
    /\ statusMessage' = "Please select valid image files"
    /\ statusMessage # statusMessage' \/ msgAge' < msgAge
C6_Step ==
    SetsEmptyInputMessage
        => /\ network' = network
           /\ runs' = runs
           /\ isUploading' = isUploading
           /\ uploadedImages' = uploadedImages
           /\ \E t \in timers' : t.kind = "status" /\ t.left = 3000
C6_ClearedInTime ==
    statusMessage = "Please select valid image files"
        => /\ msgAge <= 3000
           /\ \E t \in timers : t.kind = "status" /\ t.left = 3000 - msgAge
C6_EmptyInput ==
    /\ []C6_ClearedInTime
    /\ [][C6_Step]_vars

\* C6 witness: the empty-input message has been displayed for 3 seconds and
\* its timer is due, with nothing uploaded.
C6_Witness ==
    /\ statusMessage = "Please select valid image files"
    /\ msgAge = 3000
    /\ network = <<>>
    /\ ~isUploading

\* C10 (as claimed): the message of a running batch is never blanked, and a
\* completion summary is blanked only 4 seconds after it was set.
IsSummary(msg) == \E n \in 1..MaxRequests : msg = ExpectedSummary(n)
C10_Step ==
    /\ statusMessage = "Uploading your images..." => statusMessage' # NoMessage
    /\ (IsSummary(statusMessage) /\ statusMessage' = NoMessage) => msgAge = 4000
C10_OwnTimerOnly == [][C10_Step]_vars

\* C8 (as claimed): copies of different entries do not interfere: the mark
\* of an entry is never removed by the timer armed by the copy of an entry
\* with another id.
C8_Step ==
    (~copiedId.isNull /\ copiedId'.isNull)
        => \A t \in timers : (t \notin timers' /\ t.left = 0) => t.from = copiedId.id
C8_CopiedMarkLasts == [][C8_Step]_vars

====
